---- MODULE Spec2Model ----
(***************************************************************************)
(* symsift.py: the catalog of C++ aggregate types rebuilt from three text  *)
(* dumps (section headers, global symbols, type records).                  *)
(*                                                                         *)
(* Text is modelled at the level the regular expressions of symsift.py     *)
(* see it.  A numeric field is the sequence of its digits as written in    *)
(* the dump (most significant first, without a 0x prefix); int(digits,     *)
(* base) is Python's int(text, base).  A line is the record of the fields  *)
(* the regular expressions can find in it.  File positions (f.tell()) are  *)
(* counted in lines.                                                       *)
(***************************************************************************)
EXTENDS Integers, Sequences, FiniteSets, TLC

VARIABLES
    pc,                      \* where __main__ is: sections, globals, types, partition, done, aborted
    sections_file,           \* the section-header dump: a sequence of SECTION HEADER blocks
    section2rva,             \* section index -> base virtual address
    line1,                   \* get_types_with_vftable: the previous line, stripped
    globals_read,            \* the lines of the global-symbol dump read so far
    max_width,               \* longest type name recorded by the symbol pass
    types,                   \* the catalog: types_with_vftable / out_types / _inout_types
    vftable_types,           \* the catalog as get_types_with_vftable returned it
    fwrd,                    \* fill_types_info: type_index -> type_index
    type_positions,          \* fill_types_info: type_index -> file pos
    content,                 \* fill_types_info: the buffered record (a sequence of lines)
    content_pos,             \* fill_types_info: file pos of the buffered record
    pos,                     \* fill_types_info: file pos of the line being handled
    types_read,              \* the lines of the type dump read so far
    calls,                   \* log of the calls of process_current_type
    detailed_types,          \* partition: other types
    virtual_detailed_types,  \* partition: virtual types
    unexpanded_types         \* partition: unexpanded virtuals

vars == << pc, sections_file, section2rva, line1, globals_read, max_width, types,
           vftable_types, fwrd, type_positions, content, content_pos, pos,
           types_read, calls, detailed_types, virtual_detailed_types,
           unexpanded_types >>

(***************************************************************************)
(* Bounds of the model.                                                    *)
(***************************************************************************)
MaxBlocks == 2
MaxGlobalLines == 4
MaxTypeLines == 6
MaxClassifyLines == 4

(***************************************************************************)
(* Dictionaries are functions; these are d[k] = v and del d[k].            *)
(***************************************************************************)
EmptyDict == << >>

Put(d, k, v) == [x \in DOMAIN d \cup {k} |-> IF x = k THEN v ELSE d[x]]

Del(d, k) == [x \in DOMAIN d \ {k} |-> d[x]]

NoTok == << >>

\* Python's int(text, base) on a string of digits.
RECURSIVE int(_, _)
int(digits, base) ==
    IF digits = << >> THEN 0
    ELSE int(SubSeq(digits, 1, Len(digits) - 1), base) * base + digits[Len(digits)]

(***************************************************************************)
(* generate_section2rva.  A block is [number, va]: the digits after        *)
(* "SECTION HEADER #" and the hexadecimal digits before "virtual address", *)
(* NoTok when the block has no such field.                                 *)
(***************************************************************************)

\* pattern.findall from block i on: "SECTION HEADER #(\d+)", then the lazy
\* ".*?" (re.S: it crosses lines and headers) up to the nearest
\* "([A-Fa-f0-9]+) virtual address"; the scan goes on after the match.
RECURSIVE pattern_findall(_, _)
pattern_findall(file_content, i) ==
    IF i > Len(file_content) THEN << >>
    ELSE LET js == {j \in i..Len(file_content) : file_content[j].va # NoTok}
         IN  IF js = {} THEN << >>
             ELSE LET j == CHOOSE j \in js : \A k \in js : j <= k
                  IN  << << file_content[i].number, file_content[j].va >> >>
                      \o pattern_findall(file_content, j + 1)

RECURSIVE section_data(_, _)
section_data(matches, n) ==
    IF n = 0 THEN EmptyDict
    ELSE Put(section_data(matches, n - 1),
             int(matches[n][1], 10), int(matches[n][2], 16))

generate_section2rva(file_content) ==
    LET matches == pattern_findall(file_content, 1)
    IN  section_data(matches, Len(matches))

(***************************************************************************)
(* get_types_with_vftable.  A line of the global-symbol dump is            *)
(* [kind, name, section, offset]: kind "sym" when g_GDATA32_regexp matches *)
(* it (name is its group 2), kind "addr" when g_addr_regexp finds          *)
(* "addr = section:offset" in it, "other" otherwise.                       *)
(***************************************************************************)
NoLine == [kind |-> "other", name |-> "", section |-> NoTok, offset |-> NoTok]

SymLine(n) == [kind |-> "sym", name |-> n, section |-> NoTok, offset |-> NoTok]

AddrLine(s, o) == [kind |-> "addr", name |-> "", section |-> s, offset |-> o]

Max(a, b) == IF a > b THEN a ELSE b

\* mutant: the sum kept in a 16-bit word
vftable_rva_wrapped(section_rva, offset) == (section_rva + offset) % 65536

\* section_rva + offset
vftable_rva(section_rva, offset) == section_rva + offset

(***************************************************************************)
(* The type dump.  A line is a record of what the regular expressions can  *)
(* find in it:                                                             *)
(*   kind    "hdr" when g_type_header_regexp matches the line, "blank"     *)
(*           for white space only, "text" otherwise                        *)
(*   idx     hdr: the hexadecimal type index                               *)
(*   leaf    hdr: the LF_ token                                            *)
(*   name    hdr: the display name g_class_name_regexp extracts, "" when   *)
(*           it extracts none                                              *)
(*   uname   the unique name g_unique_name_regexp finds, "" for none       *)
(*   fl      the digits g_field_list_regexp finds, NoTok for none          *)
(*   fwd     the digits g_fwd_ref_regexp finds, NoTok for none             *)
(*   scoped  g_scoped_regexp matches ("options:" ... "scoped")             *)
(*   sz      the digits g_sizeof_regexp finds, NoTok for none              *)
(***************************************************************************)
Hdr(i, l, n) ==
    [kind |-> "hdr", idx |-> i, leaf |-> l, name |-> n, uname |-> "",
     fl |-> NoTok, fwd |-> NoTok, scoped |-> FALSE, sz |-> NoTok]

Body(u, f, w, s, z) ==
    [kind |-> "text", idx |-> NoTok, leaf |-> "", name |-> "", uname |-> u,
     fl |-> f, fwd |-> w, scoped |-> s, sz |-> z]

Blank ==
    [kind |-> "blank", idx |-> NoTok, leaf |-> "", name |-> "", uname |-> "",
     fl |-> NoTok, fwd |-> NoTok, scoped |-> FALSE, sz |-> NoTok]

g_wanted_types == {"LF_CLASS", "LF_STRUCTURE", "LF_FIELDLIST"}

\* mutant: no name is taken for an anonymous one
UnnamedNames_none == {}

\* The names of the model that contain "<unnamed-".
UnnamedNames == {"<unnamed-tag>", "Foo::<unnamed-type-u>"}

\* A line has the field: the regular expression of the field matches in it.
Has(l, f) ==
    IF f = "scoped" THEN l.scoped
    ELSE IF f = "uname" THEN l.uname # ""
    ELSE l[f] # NoTok

\* The first line of _content, from line i on, in which the field is found
\* (re.search returns the leftmost match); 0 when there is none.
RECURSIVE First(_, _, _)
First(_content, f, i) ==
    IF i > Len(_content) THEN 0
    ELSE IF Has(_content[i], f) THEN i
    ELSE First(_content, f, i + 1)

\* g_type_header_regexp.search(_content): "^\s*" skips leading white space
\* (blank lines included), then the header must follow; 0 when no match.
RECURSIVE HeaderAt(_, _)
HeaderAt(_content, i) ==
    IF i > Len(_content) THEN 0
    ELSE IF _content[i].kind = "hdr" THEN i
    ELSE IF _content[i].kind = "blank" THEN HeaderAt(_content, i + 1)
    ELSE 0

\* g_class_name_regexp.search(_content): "LF_.*" is greedy and crosses lines
\* (re.DOTALL), so the name is the one of the last "[size = n] `name`" line
\* at or after the first "LF_"; 0 when no match.
RECURSIVE LastName(_, _)
LastName(_content, i) ==
    IF i = 0 THEN 0
    ELSE IF _content[i].kind = "hdr" /\ _content[i].name # "" THEN i
    ELSE LastName(_content, i - 1)

\* What a call leaves: the catalog, the forward map and the exception raised.
Outcome(t, f, e) == [types |-> t, fwd |-> f, exc |-> e]

\* mutant: the mapping recorded the wrong way round
record_forward_reversed(_fwd, _type_index, fwd_type) == Put(_fwd, fwd_type, _type_index)

\* _fwd[_type_index] = fwd_type
record_forward(_fwd, _type_index, fwd_type) == Put(_fwd, _type_index, fwd_type)

\* mutant: the scoped type is left in the catalog
delete_scoped_kept(_inout_types, type_name) == _inout_types

\* mutant: the whole catalog is cleared
delete_scoped_all(_inout_types, type_name) == EmptyDict

\* if type_name in _inout_types: del _inout_types[type_name]
delete_scoped(_inout_types, type_name) ==
    IF type_name \in DOMAIN _inout_types
    THEN Del(_inout_types, type_name) ELSE _inout_types

\* mutant: the rva of the existing entry is not carried over
merge_rva_zero(_inout_types, type_name) == 0

\* mutant: elem[-1] in the place of elem[0]
merge_rva_last(_inout_types, type_name) ==
    IF type_name \in DOMAIN _inout_types
    THEN _inout_types[type_name][Len(_inout_types[type_name])] ELSE 0

\* rva = 0; if type_name in _inout_types: rva = elem[0]
merge_rva(_inout_types, type_name) ==
    IF type_name \in DOMAIN _inout_types THEN _inout_types[type_name][1] ELSE 0

\* mutant: no check of the size
size_assert_off(elem, sizeof) == TRUE

\* assert (len(elem) == 1 or elem[-1] == sizeof)
size_assert(elem, sizeof) == Len(elem) = 1 \/ elem[Len(elem)] = sizeof

\* mutant: type index and field list index in each other's place
merged_record_swapped(rva, _type_index, field_list_index, unique_type_name, sizeof) ==
    << rva, field_list_index, _type_index, unique_type_name, sizeof >>

\* [rva, _type_index, field_list_index, unique_type_name, sizeof]
merged_record(rva, _type_index, field_list_index, unique_type_name, sizeof) ==
    << rva, _type_index, field_list_index, unique_type_name, sizeof >>

process_class(_content, _type_index, _fwd, _inout_types) ==
    LET m_fwd == First(_content, "fwd", 1)
        m_name == LastName(_content, Len(_content))
    IN
    IF m_fwd # 0
    THEN Outcome(_inout_types,
                 record_forward(_fwd, _type_index, int(_content[m_fwd].fwd, 16)), "")
    ELSE IF m_name = 0 THEN Outcome(_inout_types, _fwd, "")
    ELSE
    LET type_name == _content[m_name].name
        must_delete == First(_content, "scoped", 1) # 0
        m_un == First(_content, "uname", 1)
        m_fl == First(_content, "fl", 1)
        m_sz == First(_content, "sz", 1)
    IN
    IF must_delete
    THEN Outcome(delete_scoped(_inout_types, type_name), _fwd, "")
    ELSE IF type_name \in UnnamedNames THEN Outcome(_inout_types, _fwd, "")
    ELSE IF m_un = 0 THEN Outcome(_inout_types, _fwd, "")
    ELSE IF m_fl = 0 THEN Outcome(_inout_types, _fwd, "")
    ELSE IF m_sz = 0 THEN Outcome(_inout_types, _fwd, "AttributeError")
    ELSE
    LET unique_type_name == _content[m_un].uname
        field_list_index == int(_content[m_fl].fl, 16)
        sizeof == int(_content[m_sz].sz, 10)
        rva == merge_rva(_inout_types, type_name)
    IN
    IF type_name \in DOMAIN _inout_types
       /\ ~size_assert(_inout_types[type_name], sizeof)
    THEN Outcome(_inout_types, _fwd, "AssertionError")
    ELSE Outcome(Put(_inout_types, type_name,
                     merged_record(rva, _type_index, field_list_index,
                                   unique_type_name, sizeof)),
                 _fwd, "")

process_fieldlist(_content, _type_index, _fwd, _inout_types) ==
    Outcome(_inout_types, _fwd, "")

\* Returns the outcome and the new _type_positions.
process_current_type(_content, _fwd, _type_positions, _inout_types, _pos) ==
    LET m == HeaderAt(_content, 1)
    IN
    IF m = 0
    THEN [out |-> Outcome(_inout_types, _fwd, ""), type_positions |-> _type_positions]
    ELSE
    LET type_idx == int(_content[m].idx, 16)
        leaf_type_name == _content[m].leaf
        positions == IF leaf_type_name \in g_wanted_types
                     THEN Put(_type_positions, type_idx, _pos)
                     ELSE _type_positions
    IN
    [out |-> IF leaf_type_name \in {"LF_CLASS", "LF_STRUCTURE"}
             THEN process_class(_content, type_idx, _fwd, _inout_types)
             ELSE IF leaf_type_name = "LF_FIELDLIST"
             THEN process_fieldlist(_content, type_idx, _fwd, _inout_types)
             ELSE Outcome(_inout_types, _fwd, ""),
     type_positions |-> positions]

(***************************************************************************)
(* The partition of __main__.                                              *)
(***************************************************************************)
Restrict(d, S) == [x \in S |-> d[x]]

\* mutant: "if details[0] >= 0"
virtual_detailed_ge(t) ==
    Restrict(t, {n \in DOMAIN t : Len(t[n]) > 1 /\ t[n][1] >= 0})

virtual_detailed(t) ==
    Restrict(t, {n \in DOMAIN t : Len(t[n]) > 1 /\ t[n][1] > 0})

detailed(t) ==
    Restrict(t, {n \in DOMAIN t : Len(t[n]) > 1 /\ ~(t[n][1] > 0)})

\* mutant: "elif len(details) == 0"
unexpanded_empty(t) ==
    Restrict(t, {n \in DOMAIN t : ~(Len(t[n]) > 1) /\ Len(t[n]) = 0})

unexpanded(t) ==
    Restrict(t, {n \in DOMAIN t : ~(Len(t[n]) > 1) /\ Len(t[n]) = 1})

(***************************************************************************)
(* The inputs of the model.                                                *)
(***************************************************************************)
Block(n, a) == [number |-> n, va |-> a]

\* "1", "2" and "01"; "1000", "0" and "2A" (hexadecimal)
BlockNumbers == {<<1>>, <<2>>, <<0, 1>>}
BlockAddresses == {NoTok, <<1, 0, 0, 0>>, <<2, 10>>}
Blocks == {Block(n, a) : n \in BlockNumbers, a \in BlockAddresses}

SeqsUpTo(S, n) == UNION {[1..k -> S] : k \in 0..n}

AllSectionDumps == SeqsUpTo(Blocks, MaxBlocks)

\* The dump of the runs that go on to the symbol and type passes:
\* SECTION HEADER #1 with "1000 virtual address".
SectionDumps == { << Block(<<1>>, <<1, 0, 0, 0>>) >> }

\* The dumps of the runs of the symbol pass alone: also #1 at F000 and #3 at 0.
GlobalsSectionDumps ==
    SectionDumps
    \cup { << Block(<<1>>, <<15, 0, 0, 0>>), Block(<<3>>, <<0>>) >> }

\* "addr = 0001:32" and "addr = 2:0" (no section 2 in the table)
PipelineGlobalLines ==
    { SymLine("Foo"), SymLine("Bar"),
      AddrLine(<<0, 0, 0, 1>>, <<3, 2>>), AddrLine(<<2>>, <<0>>) }

\* and "addr = 3:0", "addr = 1:4096", a line that is neither
GlobalLines ==
    PipelineGlobalLines
    \cup { AddrLine(<<3>>, <<0>>), AddrLine(<<1>>, <<4, 0, 9, 6>>), NoLine }

\* 0x1000 | LF_CLASS [size = 40] `Foo`, ...
HFoo == Hdr(<<1, 0, 0, 0>>, "LF_CLASS", "Foo")
HFoo2 == Hdr(<<1, 0, 0, 1>>, "LF_STRUCTURE", "Foo")
HBaz == Hdr(<<1, 0, 0, 2>>, "LF_STRUCTURE", "Baz")
HAnon == Hdr(<<1, 0, 0, 3>>, "LF_CLASS", "<unnamed-tag>")
\* unique name: `.?AUFoo@@` ... field list: 0x5 ... options: ..., sizeof 16
BodyA == Body(".?AUFoo@@", <<5>>, NoTok, FALSE, <<1, 6>>)
BodyB == Body(".?AVFoo@@", <<1, 0, 13, 10>>, NoTok, FALSE, <<1, 6>>)
BodyC == Body(".?AUFoo@@", <<5>>, NoTok, FALSE, <<2, 4>>)
\* options: forward ref (-> 0x1001) ..., sizeof 0
BodyFwd == Body("", NoTok, <<1, 0, 0, 1>>, FALSE, <<0>>)
BodyFwdScoped == Body(".?AUFoo@@", <<5>>, <<1, 0, 0, 2>>, TRUE, <<1, 6>>)
\* options: ... scoped ..., sizeof 16
BodyScoped == Body(".?AUFoo@@", <<5>>, NoTok, TRUE, <<1, 6>>)
\* a record body without "sizeof", one with "field list: <no type>"
BodyNoSz == Body(".?AUFoo@@", <<5>>, NoTok, FALSE, NoTok)
BodyNoFl == Body(".?AUFoo@@", NoTok, NoTok, FALSE, <<1, 6>>)
\* 0x1004 | LF_FIELDLIST [size = 76], 0x1005 | LF_POINTER [size = 12]
HFieldlist == Hdr(<<1, 0, 0, 4>>, "LF_FIELDLIST", "")
HPointer == Hdr(<<1, 0, 0, 5>>, "LF_POINTER", "")
\* a line in which no regular expression finds anything
Text == Body("", NoTok, NoTok, FALSE, NoTok)

\* The type dumps of the model: every sequence of lines of one family, up to
\* the family's length.
MergeLines == {HFoo, HFoo2, BodyA, BodyB, BodyC}
ScopedLines == {HFoo, BodyA, BodyScoped}
NamesLines == {HFoo, HBaz, BodyA}
IncompleteLines == {HFoo, HBaz, BodyNoSz, BodyA}
OtherLines == {HAnon, HFieldlist, HPointer, BodyA}
ClassifyLines ==
    {HFoo, HBaz, HAnon, BodyA, BodyFwd, BodyFwdScoped, BodyScoped, BodyNoFl, Text}

TypeLines ==
    MergeLines \cup ScopedLines \cup NamesLines \cup IncompleteLines
    \cup OtherLines \cup ClassifyLines

InFamily(dump, lines, max) ==
    Len(dump) <= max /\ \A i \in 1..Len(dump) : dump[i] \in lines

TypeDump(dump) ==
    \/ InFamily(dump, MergeLines, MaxTypeLines)
    \/ InFamily(dump, ScopedLines, MaxTypeLines)
    \/ InFamily(dump, NamesLines, MaxTypeLines)
    \/ InFamily(dump, IncompleteLines, MaxTypeLines)
    \/ InFamily(dump, OtherLines, MaxTypeLines)
    \/ InFamily(dump, ClassifyLines, MaxClassifyLines)

(***************************************************************************)
(* The run of __main__.                                                    *)
(***************************************************************************)
InitRest ==
    /\ pc = "sections"
    /\ section2rva = EmptyDict
    /\ line1 = NoLine
    /\ globals_read = << >>
    /\ max_width = -1
    /\ types = EmptyDict
    /\ vftable_types = EmptyDict
    /\ fwrd = EmptyDict
    /\ type_positions = EmptyDict
    /\ content = << >>
    /\ content_pos = -1
    /\ pos = 0
    /\ types_read = << >>
    /\ calls = << >>
    /\ detailed_types = EmptyDict
    /\ virtual_detailed_types = EmptyDict
    /\ unexpanded_types = EmptyDict

Init == sections_file \in SectionDumps /\ InitRest

InitGlobals == sections_file \in GlobalsSectionDumps /\ InitRest

InitSections == sections_file \in AllSectionDumps /\ InitRest

\* section2rva = generate_section2rva(sections_file)
GenerateSection2Rva ==
    /\ pc = "sections"
    /\ section2rva' = generate_section2rva(sections_file)
    /\ pc' = "globals"
    /\ UNCHANGED << sections_file, line1, globals_read, max_width, types,
                    vftable_types, fwrd, type_positions, content, content_pos,
                    pos, types_read, calls, detailed_types,
                    virtual_detailed_types, unexpanded_types >>

\* One turn of the loop of get_types_with_vftable, on line2.  A section that
\* is not in _in_section2rva raises KeyError, which nothing catches.
\* out_types[type_name] = [rva]: a later pair of the same name overwrites
record_vftable_first(out_types, type_name, rva) ==
    IF type_name \in DOMAIN out_types THEN out_types
    ELSE Put(out_types, type_name, << rva >>)

record_vftable(out_types, type_name, rva) == Put(out_types, type_name, << rva >>)

ReadGlobalsLine(line2) ==
    /\ pc = "globals"
    /\ Len(globals_read) < MaxGlobalLines
    /\ globals_read' = Append(globals_read, line2)
    /\ IF line1.kind = "sym" /\ line2.kind = "addr"
       THEN LET type_name == line1.name
                section == int(line2.section, 10)
                offset == int(line2.offset, 10)
            IN  IF section \in DOMAIN section2rva
                THEN /\ types' = record_vftable(types, type_name,
                                     vftable_rva(section2rva[section], offset))
                     /\ max_width' = Max(max_width, Len(type_name))
                     /\ line1' = line2
                     /\ pc' = pc
                ELSE /\ pc' = "aborted"
                     /\ UNCHANGED << types, max_width, line1 >>
       ELSE /\ line1' = line2
            /\ UNCHANGED << types, max_width, pc >>
    /\ UNCHANGED << sections_file, section2rva, vftable_types, fwrd,
                    type_positions, content, content_pos, pos, types_read, calls,
                    detailed_types, virtual_detailed_types, unexpanded_types >>

\* The end of the global-symbol dump: get_types_with_vftable returns out_types
\* and max_width, its file and its locals are gone.
GlobalsEOF ==
    /\ pc = "globals"
    /\ pc' = "types"
    /\ vftable_types' = types
    /\ line1' = NoLine
    /\ globals_read' = << >>
    /\ UNCHANGED << sections_file, section2rva, max_width, types, fwrd,
                    type_positions, content, content_pos, pos, types_read, calls,
                    detailed_types, virtual_detailed_types, unexpanded_types >>

\* One turn of the loop of fill_types_info, on line.  An exception of
\* process_current_type is caught after it skipped "content = line".
ReadTypeLine(line) ==
    /\ pc = "types"
    /\ TypeDump(Append(types_read, line))
    /\ types_read' = Append(types_read, line)
    /\ pos' = pos + 1
    /\ IF line.kind = "hdr"
       THEN IF content # << >>
            THEN LET r == process_current_type(content, fwrd, type_positions,
                                               types, content_pos)
                 IN  /\ types' = r.out.types
                     /\ fwrd' = r.out.fwd
                     /\ type_positions' = r.type_positions
                     /\ calls' = Append(calls,
                                   [content |-> content, at |-> pos,
                                    before |-> types,
                                    fwd_before |-> fwrd, after |-> r.out.types,
                                    fwd_after |-> r.out.fwd, exc |-> r.out.exc])
                     /\ IF r.out.exc = ""
                        THEN content' = << line >> /\ content_pos' = pos
                        ELSE UNCHANGED << content, content_pos >>
            ELSE UNCHANGED << types, fwrd, type_positions, calls, content, content_pos >>
       ELSE /\ content' = Append(content, line)
            /\ UNCHANGED << types, fwrd, type_positions, calls, content_pos >>
    /\ UNCHANGED << pc, sections_file, section2rva, line1, globals_read,
                    max_width, vftable_types, detailed_types,
                    virtual_detailed_types, unexpanded_types >>

\* mutant: the buffered record is classified at the end of the dump
TypesEOF_flush ==
    /\ pc = "types"
    /\ pc' = "partition"
    /\ LET r == process_current_type(content, fwrd, type_positions, types, content_pos)
       IN  /\ types' = r.out.types
           /\ fwrd' = r.out.fwd
           /\ type_positions' = r.type_positions
           /\ calls' = Append(calls,
                         [content |-> content, at |-> pos, before |-> types,
                          fwd_before |-> fwrd, after |-> r.out.types,
                          fwd_after |-> r.out.fwd, exc |-> r.out.exc])
    /\ UNCHANGED << sections_file, section2rva, line1, globals_read, max_width,
                    vftable_types, content, content_pos, pos, types_read,
                    detailed_types, virtual_detailed_types, unexpanded_types >>

\* readline() returns "": the loop ends and fill_types_info returns.
TypesEOF ==
    /\ pc = "types"
    /\ pc' = "partition"
    /\ UNCHANGED << sections_file, section2rva, line1, globals_read, max_width,
                    types, vftable_types, fwrd, type_positions, content,
                    content_pos, pos, types_read, calls, detailed_types,
                    virtual_detailed_types, unexpanded_types >>

Partition ==
    /\ pc = "partition"
    /\ virtual_detailed_types' = virtual_detailed(types)
    /\ detailed_types' = detailed(types)
    /\ unexpanded_types' = unexpanded(types)
    /\ pc' = "done"
    /\ UNCHANGED << sections_file, section2rva, line1, globals_read, max_width,
                    types, vftable_types, fwrd, type_positions, content,
                    content_pos, pos, types_read, calls >>

ReadPipelineGlobalsLine == \E line2 \in PipelineGlobalLines : ReadGlobalsLine(line2)

ReadTypesLine == \E line \in TypeLines : ReadTypeLine(line)

ReadAnyGlobalsLine == \E line2 \in GlobalLines : ReadGlobalsLine(line2)

Next ==
    \/ GenerateSection2Rva
    \/ ReadPipelineGlobalsLine
    \/ GlobalsEOF
    \/ ReadTypesLine
    \/ TypesEOF
    \/ Partition

Spec == Init /\ [][Next]_vars

\* generate_section2rva alone, on every dump of the model.
NextSections == GenerateSection2Rva

SpecSections == InitSections /\ [][NextSections]_vars

\* The section and symbol passes, on the larger set of symbol lines.
NextGlobals ==
    \/ GenerateSection2Rva
    \/ ReadAnyGlobalsLine
    \/ GlobalsEOF

SpecGlobals == InitGlobals /\ [][NextGlobals]_vars

(***************************************************************************)
(* The properties.  A call of process_current_type is read as the dump     *)
(* record it was given: its header line and the fields of its body.        *)
(***************************************************************************)
RECURSIVE Pow(_, _)
Pow(b, n) == IF n = 0 THEN 1 ELSE b * Pow(b, n - 1)

\* The number a numeral denotes: each digit times the weight of its place.
RECURSIVE Numeral(_, _)
Numeral(digits, base) ==
    IF digits = << >> THEN 0
    ELSE digits[1] * Pow(base, Len(digits) - 1) + Numeral(Tail(digits), base)

Header(c) == c.content[1]

\* The call was given a class or structure record.
ClassCall(c) ==
    Header(c).kind = "hdr" /\ Header(c).leaf \in {"LF_CLASS", "LF_STRUCTURE"}

FwdLines(c) == {i \in 1..Len(c.content) : c.content[i].fwd # NoTok}
ScopedLinesOf(c) == {i \in 1..Len(c.content) : c.content[i].scoped}
UnameLines(c) == {i \in 1..Len(c.content) : c.content[i].uname # ""}
FlLines(c) == {i \in 1..Len(c.content) : c.content[i].fl # NoTok}
SzLines(c) == {i \in 1..Len(c.content) : c.content[i].sz # NoTok}

The(S) == CHOOSE i \in S : TRUE

RecName(c) == Header(c).name
RecIndex(c) == Numeral(Header(c).idx, 16)
RecFwd(c) == Numeral(c.content[The(FwdLines(c))].fwd, 16)
RecUname(c) == c.content[The(UnameLines(c))].uname
RecFl(c) == Numeral(c.content[The(FlLines(c))].fl, 16)
RecSz(c) == Numeral(c.content[The(SzLines(c))].sz, 10)

\* A usable record: class or structure, not a forward declaration, not
\* scoped, its name extractable and not anonymous, with one unique name, one
\* field list and one sizeof.
Usable(c) ==
    /\ ClassCall(c)
    /\ RecName(c) # ""
    /\ RecName(c) \notin UnnamedNames
    /\ FwdLines(c) = {}
    /\ ScopedLinesOf(c) = {}
    /\ Cardinality(UnameLines(c)) = 1
    /\ Cardinality(FlLines(c)) = 1
    /\ Cardinality(SzLines(c)) = 1

Resolved(t, n) == n \in DOMAIN t /\ Len(t[n]) = 5
VftableOnly(t, n) == n \in DOMAIN t /\ Len(t[n]) = 1

\* The record of the call, merged over the entry's rva.
Refreshed(c, rva) == << rva, RecIndex(c), RecFl(c), RecUname(c), RecSz(c) >>

SizeMismatch(c) ==
    /\ Usable(c)
    /\ Resolved(c.before, RecName(c))
    /\ c.before[RecName(c)][5] # RecSz(c)

\* C1: merging a usable record whose name has a 5-field entry of another
\* sizeof raises, and the merge does not complete: the catalog is not written.
C1_SizeMismatchRaises ==
    \A i \in 1..Len(calls) :
        SizeMismatch(calls[i])
            => calls[i].exc # "" /\ calls[i].after = calls[i].before

C1_Witness ==
    \E i \in 1..Len(calls) :
        SizeMismatch(calls[i]) /\ calls[i].exc = "AssertionError"

SameSize(c) ==
    /\ Usable(c)
    /\ Resolved(c.before, RecName(c))
    /\ c.before[RecName(c)][5] = RecSz(c)

\* C2: merging a usable record whose name has a 5-field entry of the same
\* sizeof succeeds; the entry keeps the earlier rva and takes the type index,
\* field list, unique name and size of the record just parsed.
C2_SameSizeRefreshes ==
    \A i \in 1..Len(calls) :
        SameSize(calls[i]) =>
            /\ calls[i].exc = ""
            /\ calls[i].after =
                   Put(calls[i].before, RecName(calls[i]),
                       Refreshed(calls[i], calls[i].before[RecName(calls[i])][1]))

\* a merge over an entry with a vftable rva that changes index, field list
\* and unique name
C2_Witness ==
    \E i \in 1..Len(calls) :
        LET c == calls[i]
            n == RecName(c)
        IN  /\ SameSize(c)
            /\ c.before[n][1] > 0
            /\ c.after[n][1] = c.before[n][1]
            /\ c.after[n][2] # c.before[n][2]
            /\ c.after[n][3] # c.before[n][3]
            /\ c.after[n][4] # c.before[n][4]

\* C3: classifying a class/struct record with a forward-reference marker
\* records fwrd[this index] = referenced index and leaves the catalog as it
\* was, whatever else the record contains.
C3_ForwardRefOnly ==
    \A i \in 1..Len(calls) :
        LET c == calls[i]
        IN  (ClassCall(c) /\ Cardinality(FwdLines(c)) = 1) =>
                /\ c.exc = ""
                /\ c.after = c.before
                /\ c.fwd_after = Put(c.fwd_before, RecIndex(c), RecFwd(c))

\* a forward declaration that is also scoped, named and sized, of a name the
\* catalog holds
C3_Witness ==
    \E i \in 1..Len(calls) :
        LET c == calls[i]
        IN  /\ ClassCall(c)
            /\ Cardinality(FwdLines(c)) = 1
            /\ ScopedLinesOf(c) # {}
            /\ SzLines(c) # {}
            /\ RecName(c) \in DOMAIN c.before
            /\ c.after = c.before
            /\ RecIndex(c) \in DOMAIN c.fwd_after
            /\ c.fwd_after[RecIndex(c)] # RecIndex(c)

ScopedRecord(c) ==
    /\ ClassCall(c)
    /\ FwdLines(c) = {}
    /\ RecName(c) # ""
    /\ ScopedLinesOf(c) # {}

\* C4: classifying a scoped, non-forward class/struct record with an
\* extractable name N removes the entry of N, whatever its kind; after the
\* step N is absent and nothing else was inserted or changed.
C4_ScopedRemoves ==
    \A i \in 1..Len(calls) :
        LET c == calls[i]
        IN  ScopedRecord(c) =>
                /\ c.exc = ""
                /\ RecName(c) \notin DOMAIN c.after
                /\ DOMAIN c.after = DOMAIN c.before \ {RecName(c)}
                /\ \A n \in DOMAIN c.after : c.after[n] = c.before[n]

\* a vftable-only entry removed by a scoped record
C4_Witness ==
    \E i \in 1..Len(calls) :
        /\ ScopedRecord(calls[i])
        /\ VftableOnly(calls[i].before, RecName(calls[i]))
        /\ RecName(calls[i]) \notin DOMAIN calls[i].after

\* a resolved entry removed by a scoped record
C4_ResolvedRemoved ==
    \E i \in 1..Len(calls) :
        /\ ScopedRecord(calls[i])
        /\ Resolved(calls[i].before, RecName(calls[i]))
        /\ RecName(calls[i]) \notin DOMAIN calls[i].after

\* C10: merging a usable record with name N inserts <<0, ...>> when N is
\* absent from the catalog, and promotes a 1-field entry of N to a 5-field
\* record with that entry's rva.
C10_InsertOrPromote ==
    \A i \in 1..Len(calls) :
        LET c == calls[i]
            n == RecName(c)
        IN  /\ (Usable(c) /\ n \notin DOMAIN c.before) =>
                   c.exc = "" /\ c.after = Put(c.before, n, Refreshed(c, 0))
            /\ (Usable(c) /\ VftableOnly(c.before, n)) =>
                   c.exc = "" /\ c.after = Put(c.before, n, Refreshed(c, c.before[n][1]))

\* one run inserts a new name and promotes a vftable-only entry
C10_Witness ==
    /\ \E i \in 1..Len(calls) :
           /\ Usable(calls[i])
           /\ RecName(calls[i]) \notin DOMAIN calls[i].before
           /\ calls[i].after[RecName(calls[i])][1] = 0
    /\ \E i \in 1..Len(calls) :
           /\ Usable(calls[i])
           /\ VftableOnly(calls[i].before, RecName(calls[i]))
           /\ calls[i].after[RecName(calls[i])][1] > 0
           /\ Len(calls[i].after[RecName(calls[i])]) = 5

\* The type dump read holds exactly one record: one header line, nothing
\* but text without fields before it.
HeaderLines == {i \in 1..Len(types_read) : types_read[i].kind = "hdr"}

OneRecord ==
    /\ Cardinality(HeaderLines) = 1
    /\ \A i \in 1..(The(HeaderLines) - 1) : types_read[i] \in {Text, Blank}

TheRecord == [content |-> SubSeq(types_read, The(HeaderLines), Len(types_read))]

\* C5: end to end, a vftable entry of Foo with rva > 0 and a type dump of
\* exactly one record, a usable record of Foo, give Foo the 5-field record
\* [rva, type index, field list, unique name, sizeof] in the virtual types.
C5_SingleRecordResolved ==
    (pc = "done" /\ OneRecord /\ Usable(TheRecord)) =>
        \A n \in DOMAIN vftable_types :
            (n = RecName(TheRecord) /\ vftable_types[n][1] > 0) =>
                /\ n \in DOMAIN types
                /\ types[n] = Refreshed(TheRecord, vftable_types[n][1])
                /\ n \in DOMAIN virtual_detailed_types
                /\ virtual_detailed_types[n] = types[n]

\* No class or structure record with display name n was classified.
NeverClassified(n) ==
    \A i \in 1..Len(calls) : ~(ClassCall(calls[i]) /\ RecName(calls[i]) = n)

InGroups(n) ==
    {g \in {"virtual", "other", "unexpanded"} :
        \/ g = "virtual" /\ n \in DOMAIN virtual_detailed_types
        \/ g = "other" /\ n \in DOMAIN detailed_types
        \/ g = "unexpanded" /\ n \in DOMAIN unexpanded_types}

\* C6: a vftable entry whose name no classified class or structure record
\* bears is, after the whole run, still the 1-field entry of its rva, and is
\* in the unexpanded group and in no other.
C6_OrphanStaysUnexpanded ==
    pc = "done" =>
        \A n \in DOMAIN vftable_types :
            NeverClassified(n) =>
                /\ n \in DOMAIN types
                /\ types[n] = vftable_types[n]
                /\ Len(types[n]) = 1
                /\ InGroups(n) = {"unexpanded"}
                /\ unexpanded_types[n] = vftable_types[n]

\* Bar stays an orphan while a record of Foo is merged
C6_Witness ==
    /\ pc = "done"
    /\ "Bar" \in DOMAIN vftable_types
    /\ NeverClassified("Bar")
    /\ \E i \in 1..Len(calls) : Usable(calls[i]) /\ RecName(calls[i]) = "Foo"
    /\ "Bar" \in DOMAIN unexpanded_types
    /\ unexpanded_types["Bar"] = << 4128 >>

\* Section indices that only one block of the dump bears.
OnlyBlock(i) ==
    \A j \in 1..Len(sections_file) :
        Numeral(sections_file[j].number, 10) = Numeral(sections_file[i].number, 10)
            => j = i

\* C7: generate_section2rva maps every section index whose own block has a
\* virtual-address field to that block's address, and has no entry for an
\* index whose block lacks the field.
C7_OwnBlockAddress ==
    pc # "sections" =>
        \A i \in 1..Len(sections_file) :
            OnlyBlock(i) =>
                LET k == Numeral(sections_file[i].number, 10)
                IN  IF sections_file[i].va # NoTok
                    THEN /\ k \in DOMAIN section2rva
                         /\ section2rva[k] = Numeral(sections_file[i].va, 16)
                    ELSE k \notin DOMAIN section2rva

\* The last two lines read are a vftable symbol line and an address line of a
\* section the table holds.
LastPair ==
    /\ Len(globals_read) >= 2
    /\ globals_read[Len(globals_read) - 1].kind = "sym"
    /\ globals_read[Len(globals_read)].kind = "addr"
    /\ Numeral(globals_read[Len(globals_read)].section, 10) \in DOMAIN section2rva

\* C8: the value recorded for N by a symbol line of N and the address line
\* section:offset after it is SectionTable[section] + offset, exactly.
C8_ExactRva ==
    LastPair =>
        LET n == globals_read[Len(globals_read) - 1].name
            a == globals_read[Len(globals_read)]
        IN  /\ n \in DOMAIN types
            /\ types[n] = << section2rva[Numeral(a.section, 10)]
                              + Numeral(a.offset, 10) >>

\* 0xF000 + 4096: a sum past 16 bits
C8_Witness ==
    /\ LastPair
    /\ section2rva[Numeral(globals_read[Len(globals_read)].section, 10)] = 61440
    /\ Numeral(globals_read[Len(globals_read)].offset, 10) = 4096
    /\ types[globals_read[Len(globals_read) - 1].name] = << 65536 >>

\* C9: every catalog value has 1 or 5 fields, and the partition puts every
\* entry in exactly one group: 5 fields and rva > 0 in the virtual types,
\* 5 fields and rva = 0 in the other types, 1 field in the unexpanded.
C9_PartitionExact ==
    /\ \A n \in DOMAIN types : Len(types[n]) \in {1, 5}
    /\ pc = "done" =>
        /\ \A n \in DOMAIN types :
            /\ Cardinality(InGroups(n)) = 1
            /\ (Len(types[n]) = 5 /\ types[n][1] > 0) =>
                   InGroups(n) = {"virtual"} /\ virtual_detailed_types[n] = types[n]
            /\ (Len(types[n]) = 5 /\ types[n][1] = 0) =>
                   InGroups(n) = {"other"} /\ detailed_types[n] = types[n]
            /\ Len(types[n]) = 1 =>
                   InGroups(n) = {"unexpanded"} /\ unexpanded_types[n] = types[n]
        /\ (DOMAIN virtual_detailed_types \cup DOMAIN detailed_types
               \cup DOMAIN unexpanded_types) \subseteq DOMAIN types

\* a final catalog with an entry in each of the three groups
C9_Witness ==
    /\ pc = "done"
    /\ DOMAIN virtual_detailed_types # {}
    /\ DOMAIN detailed_types # {}
    /\ DOMAIN unexpanded_types # {}

\* C11: in every state of the symbol pass and the type pass the rva of every
\* entry is non-negative, the rva of a 5-field entry is 0 or the rva the
\* symbol pass recorded for that name, and no call of the type pass changes
\* the rva of an entry that stays in the catalog.
C11_RvaStable ==
    /\ \A n \in DOMAIN types :
        /\ types[n][1] >= 0
        /\ Len(types[n]) = 5 =>
               \/ types[n][1] = 0
               \/ n \in DOMAIN vftable_types /\ types[n][1] = vftable_types[n][1]
    /\ \A i \in 1..Len(calls) :
        \A n \in DOMAIN calls[i].before \cap DOMAIN calls[i].after :
            calls[i].after[n][1] = calls[i].before[n][1]

\* a resolved entry with the rva of its vftable merged once more
C11_Witness ==
    \E i \in 1..Len(calls) :
        \E n \in DOMAIN calls[i].before :
            /\ Resolved(calls[i].before, n)
            /\ Resolved(calls[i].after, n)
            /\ calls[i].after[n] # calls[i].before[n]
            /\ calls[i].after[n][1] > 0
            /\ calls[i].after[n][1] = vftable_types[n][1]

\* The records of the type dump read so far: a record runs from its header
\* line up to, not including, the next header line.
NextHeader(h) ==
    IF \E k \in HeaderLines : k > h
    THEN CHOOSE k \in HeaderLines : k > h /\ \A j \in HeaderLines : j > h => k <= j
    ELSE Len(types_read) + 1

RecordAt(h) == [content |-> SubSeq(types_read, h, NextHeader(h) - 1)]

LastHeader ==
    IF HeaderLines = {} THEN 0
    ELSE CHOOSE k \in HeaderLines : \A j \in HeaderLines : j <= k

\* C12: a name that a scoped, non-forward class/struct record of the dump
\* bears is absent from the final catalog and from the three groups, wherever
\* the record is in the dump and whatever precedes or follows it.
C12_ScopedNeverInCatalog ==
    pc = "done" =>
        \A h \in HeaderLines :
            ScopedRecord(RecordAt(h)) =>
                /\ RecName(RecordAt(h)) \notin DOMAIN types
                /\ InGroups(RecName(RecordAt(h))) = {}

\* What the classifier has left: the outcome of its last call.
LastTypes == IF calls = << >> THEN vftable_types ELSE calls[Len(calls)].after
LastFwd == IF calls = << >> THEN EmptyDict ELSE calls[Len(calls)].fwd_after

\* C13: a buffered record goes to process_current_type only when a later
\* header line is read, so every call is made at a header line, on lines read
\* before it; the last record of the dump is in no call, and the catalog and
\* the forward map are those the last call left.
C13_LastRecordNotClassified ==
    pc \in {"types", "partition", "done"} =>
        /\ \A i \in 1..Len(calls) :
            /\ calls[i].at + 1 \in HeaderLines
            /\ calls[i].at + 1 <= LastHeader
            /\ \A j \in 1..Len(calls[i].content) :
                   \E k \in 1..calls[i].at : types_read[k] = calls[i].content[j]
        /\ Len(calls) <= Cardinality(HeaderLines)
        /\ types = LastTypes
        /\ fwrd = LastFwd

\* the dump ends with a usable record of a vftable name, after other records
\* were classified, and the entry is still the 1-field one
C13_Witness ==
    /\ pc = "done"
    /\ calls # << >>
    /\ LastHeader # 0
    /\ Usable(RecordAt(LastHeader))
    /\ VftableOnly(types, RecName(RecordAt(LastHeader)))

\* The records that have a later header line, in the order of the dump.
RECURSIVE FlushedFrom(_)
FlushedFrom(h) ==
    IF h = 0 \/ h > Len(types_read) \/ NextHeader(h) > Len(types_read) THEN << >>
    ELSE << RecordAt(h).content >> \o FlushedFrom(NextHeader(h))

RECURSIVE ContentsFrom(_)
ContentsFrom(i) ==
    IF i > Len(calls) THEN << >>
    ELSE (IF calls[i].content[1].kind = "hdr" THEN << calls[i].content >> ELSE << >>)
         \o ContentsFrom(i + 1)

\* C14: the records handed to process_current_type are, once each and in the
\* order of the dump, the records that have a later header line, each as its
\* header line and the lines up to the next header line.
C14_EveryRecordDelivered ==
    pc \in {"types", "partition", "done"} =>
        ContentsFrom(1) = FlushedFrom(NextHeader(0))

\* A class/struct record with a unique name and without its field list or
\* without its sizeof, whose type index no other record of the dump bears.
Incomplete(h) ==
    /\ ClassCall(RecordAt(h))
    /\ UnameLines(RecordAt(h)) # {}
    /\ FlLines(RecordAt(h)) = {} \/ SzLines(RecordAt(h)) = {}
    /\ \A k \in HeaderLines : types_read[k].idx = types_read[h].idx => k = h

PairsOf(n) ==
    { i \in 1..(Len(globals_read) - 1) :
        /\ globals_read[i].kind = "sym"
        /\ globals_read[i].name = n
        /\ globals_read[i + 1].kind = "addr" }

Last(S) == CHOOSE i \in S : \A j \in S : j <= i

SymbolNames == { globals_read[i].name : i \in 1..Len(globals_read) } \ {""}

\* C18: while the symbol pass runs, its mapping has an entry for N exactly
\* when a symbol line of N was immediately followed by an address line, and
\* the entry is the address of the last such pair.
C18_LastPairWins ==
    pc = "globals" =>
        /\ DOMAIN types = { n \in SymbolNames : PairsOf(n) # {} }
        /\ \A n \in DOMAIN types :
            LET a == globals_read[Last(PairsOf(n)) + 1]
            IN  types[n] = << section2rva[Numeral(a.section, 10)]
                               + Numeral(a.offset, 10) >>

\* a name recorded twice with different addresses: the entry is the later one
C18_Witness ==
    /\ pc = "globals"
    /\ \E n \in DOMAIN types :
        \E i, j \in PairsOf(n) :
            /\ i < j
            /\ j = Last(PairsOf(n))
            /\ globals_read[i + 1] # globals_read[j + 1]
            /\ types[n] = << section2rva[Numeral(globals_read[j + 1].section, 10)]
                              + Numeral(globals_read[j + 1].offset, 10) >>
            /\ types[n] # << section2rva[Numeral(globals_read[i + 1].section, 10)]
                              + Numeral(globals_read[i + 1].offset, 10) >>

\* The display name of the record has the marker "<unnamed-" in it.
Anonymous(c) == RecName(c) \in {"<unnamed-tag>", "Foo::<unnamed-type-u>"}

AnonymousRecord(c) ==
    /\ ClassCall(c)
    /\ FwdLines(c) = {}
    /\ ScopedLinesOf(c) = {}
    /\ Anonymous(c)

\* A record of another kind: a field list or a leaf the pass does not know.
OtherRecord(c) ==
    /\ Header(c).kind = "hdr"
    /\ Header(c).leaf \notin {"LF_CLASS", "LF_STRUCTURE"}

\* C19: classifying a non-forward, non-scoped class/struct record whose name
\* contains "<unnamed-" leaves the catalog and the forward map as they were,
\* and a record that is no class or structure never changes the catalog.
C19_AnonymousAndOthersInert ==
    \A i \in 1..Len(calls) :
        /\ AnonymousRecord(calls[i]) =>
               /\ calls[i].after = calls[i].before
               /\ calls[i].fwd_after = calls[i].fwd_before
        /\ OtherRecord(calls[i]) => calls[i].after = calls[i].before

\* an anonymous record and a field-list record, each with a unique name, a
\* field list and a sizeof in its body, were classified
C19_Witness ==
    \E i, j \in 1..Len(calls) :
        /\ AnonymousRecord(calls[i])
        /\ UnameLines(calls[i]) # {} /\ FlLines(calls[i]) # {} /\ SzLines(calls[i]) # {}
        /\ OtherRecord(calls[j])
        /\ Header(calls[j]).leaf = "LF_FIELDLIST"
        /\ UnameLines(calls[j]) # {} /\ FlLines(calls[j]) # {} /\ SzLines(calls[j]) # {}

Absent(t, n) == n \notin DOMAIN t

\* The entry of n is the same before and after the call.
Untouched(c, n) ==
    /\ n \in DOMAIN c.before <=> n \in DOMAIN c.after
    /\ n \in DOMAIN c.before => c.after[n] = c.before[n]

\* The name the call was delivered with; "" when it has no header line.
Delivered(c) == IF Header(c).kind = "hdr" THEN RecName(c) ELSE ""

\* C20: a call of the type pass touches at most the entry of the name N it
\* was delivered with; that entry goes absent -> resolved, vftable-only ->
\* resolved, resolved -> resolved or any -> absent (scoped records only), and
\* no entry ever becomes vftable-only.
C20_OneKeyPerStep ==
    \A i \in 1..Len(calls) :
        LET c == calls[i]
            N == Delivered(c)
        IN  /\ \A n \in (DOMAIN c.before \cup DOMAIN c.after) \ {N} : Untouched(c, n)
            /\ N \in DOMAIN c.before \cup DOMAIN c.after =>
                \/ Untouched(c, N)
                \/ Absent(c.before, N) /\ Resolved(c.after, N)
                \/ VftableOnly(c.before, N) /\ Resolved(c.after, N)
                \/ Resolved(c.before, N) /\ Resolved(c.after, N)
                \/ ~Absent(c.before, N) /\ Absent(c.after, N) /\ ScopedRecord(c)

\* beside an entry of another name, the entry of Foo was promoted from
\* vftable-only to resolved and later removed by a scoped record
C20_Witness ==
    \E i, j \in 1..Len(calls) :
        /\ i < j
        /\ Delivered(calls[i]) = Delivered(calls[j])
        /\ VftableOnly(calls[i].before, Delivered(calls[i]))
        /\ Resolved(calls[i].after, Delivered(calls[i]))
        /\ Resolved(calls[j].before, Delivered(calls[j]))
        /\ Absent(calls[j].after, Delivered(calls[j]))
        /\ \E n \in DOMAIN calls[j].after : n # Delivered(calls[j])

====
